---- MODULE Spec2Model ----
(***************************************************************************)
(* A model of lib/hd/keyorigininfo.js: the KeyOriginInfo value object, its *)
(* binary, JSON and path-string forms, equality, cloning and reset.        *)
(*                                                                         *)
(* JavaScript numbers in [-2^31, 2^32] are kept as a pair <<hi, lo>> of    *)
(* 16-bit limbs, value hi * 65536 + lo with lo in 0..65535, so that the    *)
(* full unsigned 32-bit range (and the int32 results of | and &) is exact. *)
(* Strings are sequences of one-character strings.  Arrays live in a heap  *)
(* (reference -> contents) so that sharing of a path array is observable.  *)
(***************************************************************************)
EXTENDS Integers, Sequences, FiniteSets, TLC

VARIABLES objs, heap, ret

vars == <<objs, heap, ret>>

(***************************************************************************)
(* Bounds of the model.                                                    *)
(***************************************************************************)
\* number of array references the heap can hold at once
NumRefs == 4
\* PathPush is enabled while the array is shorter than this
MaxPushLen == 2
\* longest path (in segments) of the generated path strings
MaxSegs == 3
\* longest path (in elements) of the generated binary inputs
MaxRawLen == 2

Refs == 1..NumRefs
Slots == {"a", "b"}

(***************************************************************************)
(* Numbers.                                                                *)
(***************************************************************************)
U(hi, lo) == <<hi, lo>>

Zero == U(0, 0)
\* -1, the "unset" fingerPrint of the constructor and of clear()
MinusOne == U(-1, 65535)
\* 2^32, the smallest integer that is no uint32
TwoTo32 == U(65536, 0)
\* 0xDEADBEEF
DeadBeef == U(57005, 48879)
\* 0x8000002C = 44', 0x80000000 = 0'
H44 == U(32768, 44)
H0 == U(32768, 0)
\* common.HARDENED = 0x80000000
HARDENED == U(32768, 0)

\* ToUint32: x modulo 2^32
ToUint32(n) == U(n[1] % 65536, n[2])

\* ToInt32: x modulo 2^32, read as a signed 32-bit integer
ToInt32(n) ==
  LET u == ToUint32(n)
  IN  IF u[1] >= 32768 THEN U(u[1] - 65536, u[2]) ELSE u

\* (n >>> 0) === n
IsUint32(n) == ToUint32(n) = n

\* a | b on the 16-bit limbs, bit by bit
RECURSIVE BitOr16(_, _, _)
BitOr16(a, b, k) ==
  IF k = 0 THEN 0
  ELSE (IF a % 2 = 1 \/ b % 2 = 1 THEN 1 ELSE 0)
       + 2 * BitOr16(a \div 2, b \div 2, k - 1)

RECURSIVE BitAnd16(_, _, _)
BitAnd16(a, b, k) ==
  IF k = 0 THEN 0
  ELSE (IF a % 2 = 1 /\ b % 2 = 1 THEN 1 ELSE 0)
       + 2 * BitAnd16(a \div 2, b \div 2, k - 1)

\* JavaScript's a | b: both operands ToInt32, the result an int32
JsOr(a, b) ==
  LET x == ToUint32(a)
      y == ToUint32(b)
  IN  ToInt32(U(BitOr16(x[1], y[1], 16), BitOr16(x[2], y[2], 16)))

\* JavaScript's a & b: both operands ToInt32, the result an int32
JsAnd(a, b) ==
  LET x == ToUint32(a)
      y == ToUint32(b)
  IN  ToInt32(U(BitAnd16(x[1], y[1], 16), BitAnd16(x[2], y[2], 16)))

\* a number in [0, 2^31) as an integer
AsInt(n) == n[1] * 65536 + n[2]

\* an integer in [0, 2^31) as a number
OfInt(i) == U(i \div 65536, i % 65536)

(***************************************************************************)
(* Outcomes: an operation returns a value or throws.                       *)
(***************************************************************************)
Thrown == [threw |-> TRUE]
Ok(v) == [threw |-> FALSE, val |-> v]

\* the result of an operation that changes the heap or builds an object
St(h, o) == [threw |-> FALSE, heap |-> h, obj |-> o]

(***************************************************************************)
(* The heap of arrays.                                                     *)
(***************************************************************************)
\* a reference not in use: the smallest one
Alloc(h) == CHOOSE r \in Refs \ DOMAIN h : \A q \in Refs \ DOMAIN h : r <= q

\* the heap with one more array
NewArray(h, r, contents) == [q \in DOMAIN h \cup {r} |-> IF q = r THEN contents ELSE h[q]]

\* Array.prototype.push on the array r
Push(h, r, v) == [h EXCEPT ![r] = Append(@, v)]

(***************************************************************************)
(* bufio: the reader and the writer.                                       *)
(***************************************************************************)
\* BufferReader.readU32BE at offset off (0-based) of data, after check(4)
readU32BE(data, off) ==
  U(data[off + 1] * 256 + data[off + 2], data[off + 3] * 256 + data[off + 4])

\* readU32 reading the most significant byte first
readU32Mutant(data, off) ==
  <<data[off + 1] * 256 + data[off + 2], data[off + 3] * 256 + data[off + 4]>>

\* BufferReader.readU32 (little-endian) at offset off, after check(4)
readU32(data, off) ==
  U(data[off + 4] * 256 + data[off + 3], data[off + 2] * 256 + data[off + 1])

\* BufferReader.check(size): an out-of-bounds read throws
check(data, off, size) == off + size <= Len(data)

\* BufferReader.left()
left(data, off) == Len(data) - off

\* BufferWriter.writeU32BE: the value modulo 2^32, most significant byte first
writeU32BE(bw, n) ==
  LET u == ToUint32(n)
  IN  bw \o <<u[1] \div 256, u[1] % 256, u[2] \div 256, u[2] % 256>>

\* BufferWriter.writeU32: the value modulo 2^32, least significant byte first
writeU32(bw, n) ==
  LET u == ToUint32(n)
  IN  bw \o <<u[2] % 256, u[2] \div 256, u[1] % 256, u[1] \div 256>>

\* bio.write(size) ... render(): the buffer of exactly size bytes
render(bw, size) == IF Len(bw) = size THEN Ok(bw) ELSE Thrown

(***************************************************************************)
(* The binary form.                                                        *)
(***************************************************************************)
\* getSize counting one byte for each path element
getSizeMutant(h, this) == 4 + Len(h[this.path])

getSize(h, this) == 4 + Len(h[this.path]) * 4

RECURSIVE WriteElems(_, _, _)
WriteElems(bw, path, i) ==
  IF i > Len(path) THEN bw ELSE WriteElems(writeU32(bw, path[i]), path, i + 1)

toWriter(h, this, bw) == WriteElems(writeU32BE(bw, this.fingerPrint), h[this.path], 1)

toRaw(h, this) ==
  LET size == getSize(h, this)
  IN  render(toWriter(h, this, <<>>), size)

\* fromReader reading groups while 4 bytes are left, and dropping the rest
RECURSIVE ReadWhole(_, _, _, _)
ReadWhole(h, this, data, off) ==
  IF Len(data) - off < 4 THEN [threw |-> FALSE, heap |-> h, obj |-> this]
  ELSE ReadWhole([h EXCEPT ![this.path] = Append(@, <<data[off + 4] * 256 + data[off + 3],
                                                      data[off + 2] * 256 + data[off + 1]>>)],
                 this, data, off + 4)

fromReaderMutant(h, this, data) ==
  IF Len(data) < 4 THEN [threw |-> TRUE]
  ELSE ReadWhole(h, [this EXCEPT !.fingerPrint =
                       <<data[1] * 256 + data[2], data[3] * 256 + data[4]>>], data, 4)

\* the loop of fromReader: while (br.left()) this.path.push(br.readU32())
RECURSIVE ReadElems(_, _, _, _)
ReadElems(h, this, data, off) ==
  IF left(data, off) = 0 THEN St(h, this)
  ELSE IF ~check(data, off, 4) THEN Thrown
  ELSE ReadElems(Push(h, this.path, readU32(data, off)), this, data, off + 4)

fromReader(h, this, data) ==
  IF ~check(data, 0, 4) THEN Thrown
  ELSE ReadElems(h, [this EXCEPT !.fingerPrint = readU32BE(data, 0)], data, 4)

fromRaw(h, this, data) == fromReader(h, this, data)

(***************************************************************************)
(* JavaScript values of the options and JSON objects.  A property that is  *)
(* absent is not in the record's DOMAIN.                                   *)
(***************************************************************************)
Undefined == [undefined |-> TRUE]
IsUndefined(v) == "undefined" \in DOMAIN v

ArrayVal(r) == [t |-> "array", ref |-> r]
StringVal(s) == [t |-> "string", s |-> s]

\* Array.isArray
IsArray(v) == v.t = "array"

\* truthiness of a number (no NaN here) and of an array or string
TruthyNum(n) == n # Zero
TruthyVal(v) == IF v.t = "string" THEN Len(v.s) > 0 ELSE TRUE

(***************************************************************************)
(* The path string.                                                        *)
(***************************************************************************)
Digits == <<"0", "1", "2", "3", "4", "5", "6", "7", "8", "9">>
IsDigit(c) == \E d \in 1..10 : Digits[d] = c
DigitVal(c) == (CHOOSE d \in 1..10 : Digits[d] = c) - 1

\* the decimal numeral of an integer >= 0, as template literals print it
RECURSIVE DecStr(_)
DecStr(i) == IF i < 10 THEN <<Digits[i + 1]>> ELSE Append(DecStr(i \div 10), Digits[(i % 10) + 1])

\* String.prototype.split on one separator character
RECURSIVE Split(_, _, _)
Split(s, sep, cur) ==
  IF s = <<>> THEN <<cur>>
  ELSE IF Head(s) = sep THEN <<cur>> \o Split(Tail(s), sep, <<>>)
  ELSE Split(Tail(s), sep, Append(cur, Head(s)))

\* the value of a decimal numeral in [0, 2^31), or -1: empty, not a numeral, too large
RECURSIVE ParseDec(_, _)
ParseDec(s, acc) ==
  IF s = <<>> THEN acc
  ELSE IF ~IsDigit(Head(s)) THEN -1
  ELSE IF acc > (2147483647 - DigitVal(Head(s))) \div 10 THEN -1
  ELSE ParseDec(Tail(s), acc * 10 + DigitVal(Head(s)))

IsMarker(c) == c \in {"'", "h"}

\* one segment: the element it denotes; throws when it is malformed
ParseSegment(seg) ==
  LET hardened == seg # <<>> /\ IsMarker(seg[Len(seg)])
      numeral  == IF hardened THEN SubSeq(seg, 1, Len(seg) - 1) ELSE seg
      index    == IF numeral = <<>> THEN -1 ELSE ParseDec(numeral, 0)
  IN  IF index < 0 THEN Thrown
      ELSE IF hardened THEN Ok(ToUint32(JsOr(OfInt(index), HARDENED)))
      ELSE Ok(OfInt(index))

\* common.parsePath(path, true): the elements of a path string; throws on a
\* malformed one, and on what is no string
parsePath(v) ==
  IF v.t # "string" THEN Thrown
  ELSE LET parts == Split(v.s, "/", <<>>)
           segs  == IF parts[1] \in {<<"m">>, <<"M">>} THEN Tail(parts) ELSE parts
           elems == [i \in 1..Len(segs) |-> ParseSegment(segs[i])]
       IN  IF \E i \in 1..Len(segs) : elems[i].threw THEN Thrown
           ELSE Ok([i \in 1..Len(segs) |-> elems[i].val])

\* the path part of format(): 'm', then '/<index>' and "'" on a hardened element
RECURSIVE FormatElems(_, _, _)
FormatElems(str, path, i) ==
  IF i > Len(path) THEN str
  ELSE LET p == path[i]
           hardened == IF TruthyNum(JsAnd(p, HARDENED)) THEN <<"'">> ELSE <<>>
       IN  FormatElems(str \o <<"/">> \o DecStr(AsInt(JsAnd(p, U(32767, 65535)))) \o hardened,
                       path, i + 1)

\* format taking an element for hardened when it is above 0x80000000
RECURSIVE FormatAbove(_, _, _)
FormatAbove(str, path, i) ==
  IF i > Len(path) THEN str
  ELSE LET p == path[i]
           above == p[1] > 32768 \/ (p[1] = 32768 /\ p[2] > 0)
       IN  FormatAbove(str \o <<"/">> \o DecStr((p[1] % 32768) * 65536 + p[2])
                         \o (IF above THEN <<"'">> ELSE <<>>), path, i + 1)

formatMutant(h, this) ==
  [fingerPrint |-> this.fingerPrint, path |-> FormatAbove(<<"m">>, h[this.path], 1)]

format(h, this) ==
  [fingerPrint |-> this.fingerPrint, path |-> FormatElems(<<"m">>, h[this.path], 1)]

(***************************************************************************)
(* The object: construction, equality, JSON, cloning, reset, derivation.   *)
(***************************************************************************)
\* every element of the array is a uint32
EveryUint32(path) == \A i \in 1..Len(path) : IsUint32(path[i])

\* fromOptions: the fingerPrint branch, then the path branch
fromOptions(h, this, options) ==
  LET hasFp   == "fingerPrint" \in DOMAIN options /\ TruthyNum(options.fingerPrint)
      hasPath == "path" \in DOMAIN options /\ TruthyVal(options.path)
      withFp  == IF hasFp THEN [this EXCEPT !.fingerPrint = options.fingerPrint] ELSE this
  IN  IF hasFp /\ ~IsUint32(options.fingerPrint) THEN Thrown
      ELSE IF ~hasPath THEN St(h, withFp)
      ELSE IF IsArray(options.path)
        THEN IF ~EveryUint32(h[options.path.ref]) THEN Thrown
             ELSE St(h, [withFp EXCEPT !.path = options.path.ref])
      ELSE LET parsed == parsePath(options.path)
               r      == Alloc(h)
           IN  IF parsed.threw THEN Thrown
               ELSE St(NewArray(h, r, parsed.val), [withFp EXCEPT !.path = r])

\* new KeyOriginInfo(options): fingerPrint -1 and a new empty path, then the options
constructor(h, options) ==
  LET r    == Alloc(h)
      this == [fingerPrint |-> MinusOne, path |-> r]
      h1   == NewArray(h, r, <<>>)
  IN  IF IsUndefined(options) THEN St(h1, this) ELSE fromOptions(h1, this, options)

\* keyInfo.path[i], undefined beyond the end: does it differ from v ?
DiffersAt(path, i, v) == IF i <= Len(path) THEN path[i] # v ELSE TRUE

\* equals: the fingerPrint, then every index of this.path
equals(h, this, keyInfo) ==
  IF this.fingerPrint # keyInfo.fingerPrint THEN FALSE
  ELSE ~\E i \in 1..Len(h[this.path]) : DiffersAt(h[keyInfo.path], i, h[this.path][i])

toJSON(this) == [fingerPrint |-> this.fingerPrint, path |-> ArrayVal(this.path)]

\* the loop of fromJSON over a non-empty array: assert, then push
RECURSIVE PushElems(_, _, _, _)
PushElems(h, this, src, i) ==
  IF i > Len(h[src]) THEN St(h, this)
  ELSE IF ~IsUint32(h[src][i]) THEN Thrown
  ELSE PushElems(Push(h, this.path, h[src][i]), this, src, i + 1)

fromJSON(h, this, json) ==
  LET hasFp   == "fingerPrint" \in DOMAIN json /\ TruthyNum(json.fingerPrint)
      hasPath == "path" \in DOMAIN json /\ TruthyVal(json.path)
      withFp  == IF hasFp THEN [this EXCEPT !.fingerPrint = json.fingerPrint] ELSE this
  IN  IF hasFp /\ ~IsUint32(json.fingerPrint) THEN Thrown
      ELSE IF ~hasPath THEN St(h, withFp)
      ELSE IF IsArray(json.path) /\ Len(h[json.path.ref]) > 0
        THEN PushElems(h, withFp, json.path.ref, 1)
      ELSE LET parsed == parsePath(json.path)
               r      == Alloc(h)
           IN  IF parsed.threw THEN Thrown
               ELSE St(NewArray(h, r, parsed.val), [withFp EXCEPT !.path = r])

\* Array.prototype.slice(): a new array with the same elements
slice(h, r) == h[r]

clone(h, this) ==
  LET r  == Alloc(h)
      h1 == NewArray(h, r, slice(h, this.path))
  IN  constructor(h1, [fingerPrint |-> this.fingerPrint, path |-> ArrayVal(r)])

\* clear emptying the path and keeping the fingerPrint
clearMutant(h, this) ==
  LET r == Alloc(h)
  IN  St(NewArray(h, r, <<>>), [fingerPrint |-> this.fingerPrint, path |-> r])

clear(h, this) ==
  LET r == Alloc(h)
  IN  St(NewArray(h, r, <<>>), [fingerPrint |-> MinusOne, path |-> r])

\* hash160.digest: an opaque function, public key -> 20 bytes
hash160(publicKey) ==
  CASE publicKey = "P1" -> <<222, 173, 190, 239, 1, 2, 3, 4, 5, 6, 7, 8, 9, 10, 11, 12, 13, 14, 15, 16>>
    [] publicKey = "P2" -> <<0, 0, 0, 0, 255, 254, 253, 252, 251, 250, 249, 248, 247, 246, 245, 244, 243, 242, 241, 240>>
    [] OTHER -> <<18, 52, 86, 120, 0, 0, 0, 0, 0, 0, 0, 0, 0, 0, 0, 0, 0, 0, 0, 0>>

\* the hardened account element: wk.account | common.HARDENED
accountElem(account) == JsOr(account, HARDENED)

fromWalletKey(h, this, wk) ==
  IF ~wk.isWalletKey THEN Thrown
  ELSE LET fp == hash160(wk.publicKey)
           h1 == Push(h, this.path, accountElem(wk.account))
           h2 == Push(h1, this.path, wk.branch)
           h3 == Push(h2, this.path, wk.index)
       IN  St(h3, [this EXCEPT !.fingerPrint = readU32BE(fp, 0)])

(***************************************************************************)
(* The state: two variables a and b that hold KeyOriginInfo objects, the   *)
(* heap of their path arrays, and what the last call returned.             *)
(***************************************************************************)
\* an options or JSON literal: its array literal becomes a new array
Materialize(h, in) ==
  IF "path" \in DOMAIN in /\ in.path.t = "array"
  THEN LET r == Alloc(h)
       IN  [heap |-> NewArray(h, r, in.path.elems), val |-> [in EXCEPT !.path = ArrayVal(r)]]
  ELSE [heap |-> h, val |-> in]

\* References are opaque: after a call, what a and b do not refer to is
\* collected and the arrays are renamed, a's to 1 and b's (if another) to 2.
RefOfB(o) == IF o["b"].path = o["a"].path THEN 1 ELSE 2
Renamed(o) == [s \in Slots |-> [o[s] EXCEPT !.path = IF s = "a" THEN 1 ELSE RefOfB(o)]]
Collected(o, h) == [q \in {1, RefOfB(o)} |-> IF q = 1 THEN h[o["a"].path] ELSE h[o["b"].path]]

\* what an object holds: its fingerPrint and the elements of its path
Value(h, o) == [fingerPrint |-> o.fingerPrint, path |-> h[o.path]]

\* t = <the object r>; or the exception, and t keeps its value
Install(t, r, rec, recThrown) ==
  IF r.threw
  THEN /\ UNCHANGED <<objs, heap>>
       /\ ret' = recThrown @@ [threw |-> TRUE]
  ELSE LET o == [objs EXCEPT ![t] = r.obj]
       IN  /\ objs' = Renamed(o)
           /\ heap' = Collected(o, r.heap)
           /\ ret' = rec @@ [threw |-> FALSE]

\* t = new KeyOriginInfo(options)
New(t, in) ==
  LET m == Materialize(heap, in)
  IN  Install(t, constructor(m.heap, m.val),
              [op |-> "new", slot |-> t, arg |-> in], [op |-> "new", slot |-> t, arg |-> in])

\* t = KeyOriginInfo.fromRaw(data)
FromRaw(t, data) ==
  LET c == constructor(heap, Undefined)
  IN  Install(t, fromRaw(c.heap, c.obj, data),
              [op |-> "fromRaw", slot |-> t, arg |-> data],
              [op |-> "fromRaw", slot |-> t, arg |-> data])

\* s.toRaw()
ToRaw(s) ==
  /\ ret' = [op |-> "toRaw", slot |-> s] @@ toRaw(heap, objs[s])
  /\ UNCHANGED <<objs, heap>>

\* s.equals(t)
Equals(s, t) ==
  /\ ret' = [op |-> "equals", slot |-> s, other |-> t, threw |-> FALSE,
             val |-> equals(heap, objs[s], objs[t])]
  /\ UNCHANGED <<objs, heap>>

\* s.format()
Format(s) ==
  /\ ret' = [op |-> "format", slot |-> s, threw |-> FALSE, val |-> format(heap, objs[s])]
  /\ UNCHANGED <<objs, heap>>

\* s.toJSON()
ToJSON(s) ==
  /\ ret' = [op |-> "toJSON", slot |-> s, threw |-> FALSE, val |-> toJSON(objs[s])]
  /\ UNCHANGED <<objs, heap>>

\* t = KeyOriginInfo.fromJSON(json), json a literal
FromJSON(t, in) ==
  LET m == Materialize(heap, in)
      c == constructor(m.heap, Undefined)
  IN  Install(t, fromJSON(c.heap, c.obj, m.val),
              [op |-> "fromJSON", slot |-> t, arg |-> in], [op |-> "fromJSON", slot |-> t])

\* t = KeyOriginInfo.fromJSON(s.toJSON()), the object the last call returned
FromJSONOfRet(t) ==
  /\ ret.op = "toJSON"
  /\ LET c == constructor(heap, Undefined)
     IN  Install(t, fromJSON(c.heap, c.obj, ret.val),
                 [op |-> "fromJSON", slot |-> t, from |-> ret.slot],
                 [op |-> "fromJSON", slot |-> t, from |-> ret.slot])

\* t = KeyOriginInfo.fromWalletKey(wk)
FromWalletKey(t, wk) ==
  LET c == constructor(heap, Undefined)
  IN  Install(t, fromWalletKey(c.heap, c.obj, wk),
              [op |-> "fromWalletKey", slot |-> t, arg |-> wk],
              [op |-> "fromWalletKey", slot |-> t])

\* t = s.clone()
Clone(s, t) ==
  Install(t, clone(heap, objs[s]),
          [op |-> "clone", slot |-> t, from |-> s], [op |-> "clone", slot |-> t, from |-> s])

\* s.clear()
Clear(s) ==
  Install(s, clear(heap, objs[s]),
          [op |-> "clear", slot |-> s, before |-> Value(heap, objs[s])],
          [op |-> "clear", slot |-> s])

\* s.path.push(v), by the holder of s
PathPush(s, v) ==
  /\ Len(heap[objs[s].path]) < MaxPushLen
  /\ heap' = Push(heap, objs[s].path, v)
  /\ ret' = [op |-> "push", slot |-> s, threw |-> FALSE]
  /\ UNCHANGED objs

(***************************************************************************)
(* Inputs of the object's life cycle.                                      *)
(***************************************************************************)
ArrayLit(elems) == [t |-> "array", elems |-> elems]

Example == <<H44, H0, U(0, 5)>>

OptionInputs ==
  { Undefined,
    [fingerPrint |-> Zero, path |-> ArrayLit(<<U(0, 1)>>)],
    [path |-> ArrayLit(<<U(0, 1)>>)],
    [path |-> ArrayLit(<<U(0, 1), U(0, 2)>>)],
    [fingerPrint |-> DeadBeef, path |-> ArrayLit(<<>>)],
    [fingerPrint |-> DeadBeef, path |-> ArrayLit(Example)],
    [path |-> StringVal(<<"m", "/", "4", "4", "'", "/", "0", "h", "/", "5">>)],
    [path |-> StringVal(<<"m", "/", "x">>)],
    [fingerPrint |-> MinusOne],
    [fingerPrint |-> TwoTo32],
    [path |-> ArrayLit(<<MinusOne>>)] }

JsonInputs ==
  { [fingerPrint |-> Zero, path |-> ArrayLit(<<U(0, 1)>>)],
    [fingerPrint |-> DeadBeef, path |-> ArrayLit(<<U(0, 1), U(0, 2)>>)],
    [fingerPrint |-> DeadBeef, path |-> ArrayLit(<<>>)],
    [path |-> ArrayLit(<<TwoTo32>>)] }

\* one encoding, fingerPrint 0 and path [1], whole and cut short
RawSample == <<0, 0, 0, 0, 1, 0, 0, 0>>
RawInputs == {RawSample, SubSeq(RawSample, 1, 6)}

PushInputs == {U(0, 2)}

WalletKey(k, account, branch, index) ==
  [isWalletKey |-> TRUE, publicKey |-> k, account |-> account, branch |-> branch,
   index |-> index]

WalletKeys ==
  { [isWalletKey |-> FALSE],
    WalletKey("P1", U(0, 5), U(0, 0), U(0, 3)),
    WalletKey("P2", U(32767, 65535), U(0, 1), U(0, 0)) }

(***************************************************************************)
(* The specification of the life cycle.                                    *)
(***************************************************************************)
Init ==
  /\ objs = [s \in Slots |-> [fingerPrint |-> MinusOne, path |-> IF s = "a" THEN 1 ELSE 2]]
  /\ heap = [r \in {1, 2} |-> <<>>]
  /\ ret = [op |-> "init", threw |-> FALSE]

Next ==
  \/ \E t \in Slots, in \in OptionInputs : New(t, in)
  \/ \E t \in Slots, data \in RawInputs : FromRaw(t, data)
  \/ \E s \in Slots : ToRaw(s)
  \/ \E s \in Slots, t \in Slots : Equals(s, t)
  \/ \E s \in Slots : Format(s)
  \/ \E s \in Slots : ToJSON(s)
  \/ \E t \in Slots, in \in JsonInputs : FromJSON(t, in)
  \/ \E t \in Slots : FromJSONOfRet(t)
  \/ \E t \in Slots, wk \in WalletKeys : FromWalletKey(t, wk)
  \/ \E s \in Slots, t \in Slots : Clone(s, t)
  \/ \E s \in Slots : Clear(s)
  \/ \E s \in Slots, v \in PushInputs : PathPush(s, v)

Spec == Init /\ [][Next]_vars

(***************************************************************************)
(* Properties of the life cycle (specification Spec).                      *)
(***************************************************************************)
ValueOf(s) == Value(heap, objs[s])

\* the unset fingerPrint, and a fingerPrint or element in [0, 2^32)
IsUnset(n) == n = MinusOne
InU32(n) == n[1] \in 0..65535 /\ n[2] \in 0..65535

\* C3: a.equals(b) is true exactly when the fingerprints are identical, the
\* paths have the same length and the elements at every index are identical.
C3_EqualsIffSameValue ==
  ret.op = "equals" =>
    (ret.val <=> /\ objs[ret.slot].fingerPrint = objs[ret.other].fingerPrint
                 /\ Len(ValueOf(ret.slot).path) = Len(ValueOf(ret.other).path)
                 /\ \A i \in 1..Len(ValueOf(ret.slot).path) :
                      ValueOf(ret.slot).path[i] = ValueOf(ret.other).path[i])

\* C5: fromWalletKey yields the path [account + 2^31, branch, index], every
\* element a uint32, and the fingerprint the first 4 bytes, big-endian, of
\* the digest of the public key.
C5_WalletKeyDerivation ==
  (ret.op = "fromWalletKey" /\ ~ret.threw) =>
    LET wk == ret.arg
        v  == ValueOf(ret.slot)
        d  == hash160(wk.publicKey)
    IN  /\ v.path = <<U(wk.account[1] + 32768, wk.account[2]), wk.branch, wk.index>>
        /\ \A i \in 1..Len(v.path) : InU32(v.path[i])
        /\ v.fingerPrint = U(d[1] * 256 + d[2], d[3] * 256 + d[4])

\* C6: x.clone() succeeds for every x, and the copy has the fingerprint and
\* the path of x in an array of its own.
C6_CloneSucceedsAndCopies ==
  ret.op = "clone" =>
    /\ ~ret.threw
    /\ ret.slot # ret.from =>
         /\ ValueOf(ret.slot) = ValueOf(ret.from)
         /\ objs[ret.slot].path # objs[ret.from].path

\* C8: an object built from an explicit {fingerPrint: 0, path} has the
\* fingerprint 0, not the unset one.
C8_ZeroFingerprintKept ==
  (ret.op = "new" /\ ~ret.threw /\ "fingerPrint" \in DOMAIN ret.arg
     /\ ret.arg.fingerPrint = Zero) =>
    /\ objs[ret.slot].fingerPrint = Zero
    /\ ~IsUnset(objs[ret.slot].fingerPrint)

\* C9: clear() does not throw and leaves the unset fingerprint and a path of
\* length 0, the value of a new KeyOriginInfo built with no options.
C9_ClearResets ==
  ret.op = "clear" =>
    /\ ~ret.threw
    /\ IsUnset(objs[ret.slot].fingerPrint)
    /\ Len(ValueOf(ret.slot).path) = 0
    /\ LET c == constructor(heap, Undefined)
       IN  ValueOf(ret.slot) = Value(c.heap, c.obj)

\* clear() has acted on an object with a set fingerprint and a non-empty path
C9_Witness ==
  /\ ret.op = "clear"
  /\ ~ret.threw
  /\ ret.before.fingerPrint = DeadBeef
  /\ Len(ret.before.path) > 0
  /\ ValueOf(ret.slot) = [fingerPrint |-> MinusOne, path |-> <<>>]

\* C10: toJSON carries no fingerprint when it is unset, and fromJSON(toJSON(x))
\* succeeds with the fingerprint and path of x, for x with an unset or
\* non-zero uint32 fingerprint and a path of uint32 elements.
C10_JsonRoundTrip ==
  /\ (ret.op = "toJSON" /\ IsUnset(objs[ret.slot].fingerPrint)) =>
       "fingerPrint" \notin DOMAIN ret.val
  /\ (ret.op = "fromJSON" /\ "from" \in DOMAIN ret /\ ret.from # ret.slot
        /\ (IsUnset(objs[ret.from].fingerPrint)
              \/ (InU32(objs[ret.from].fingerPrint) /\ objs[ret.from].fingerPrint # Zero))
        /\ \A i \in 1..Len(ValueOf(ret.from).path) : InU32(ValueOf(ret.from).path[i])) =>
       /\ ~ret.threw
       /\ ValueOf(ret.slot) = ValueOf(ret.from)

(***************************************************************************)
(* The binary form (specification SpecRaw): a holds an object drawn from   *)
(* bounded sets, built by the constructor or decoded; it is encoded, and   *)
(* buffers (the encodings, and cut or extended ones) are decoded into b.   *)
(***************************************************************************)
\* all sequences over S of length at most n
RECURSIVE SeqsUpTo(_, _)
SeqsUpTo(S, n) ==
  IF n = 0 THEN {<<>>}
  ELSE LET shorter == SeqsUpTo(S, n - 1)
       IN  shorter \cup {Append(q, e) : q \in shorter, e \in S}

\* 0xFFFFFFFF, 0x01020304
MaxU32 == U(65535, 65535)
Bytes1234 == U(258, 772)

RawFps == {DeadBeef, MaxU32}
RawElems == {U(0, 5), H44, H0, Bytes1234}
RawPaths == SeqsUpTo(RawElems, MaxRawLen) \cup {Example}

RawOptions ==
  {[path |-> ArrayLit(q)] : q \in RawPaths}
    \cup {[fingerPrint |-> f, path |-> ArrayLit(q)] : f \in RawFps, q \in RawPaths}

\* encodings with the fingerPrint 0, which only decoding yields
RawSeeds == {<<0, 0, 0, 0>>, <<0, 0, 0, 0, 4, 3, 2, 1>>}

\* the objects a may hold: new KeyOriginInfo(options) and fromRaw(seed)
RawObjects ==
  {LET m == Materialize(<<>>, in) IN constructor(m.heap, m.val) : in \in RawOptions}
    \cup {LET c == constructor(<<>>, Undefined) IN fromRaw(c.heap, c.obj, d) : d \in RawSeeds}

\* the bytes the last call returned, when it was toRaw; those bytes cut short
\* by n bytes; and extended by one byte
RetBytes == IF ret.op = "toRaw" /\ ~ret.threw THEN {ret.val} ELSE {}
CutBytes ==
  {SubSeq(d, 1, Len(d) - n) : d \in {e \in RetBytes : Len(e) <= 8}, n \in 1..8}
    \cup {Append(d, 0) : d \in RetBytes}

InitRaw ==
  \E r \in RawObjects :
    /\ ~r.threw
    /\ objs = [s \in Slots |-> [fingerPrint |-> IF s = "a" THEN r.obj.fingerPrint ELSE MinusOne,
                                path |-> IF s = "a" THEN 1 ELSE 2]]
    /\ heap = [q \in {1, 2} |-> IF q = 1 THEN r.heap[r.obj.path] ELSE <<>>]
    /\ ret = [op |-> "init", threw |-> FALSE]

NextRaw ==
  \/ \E s \in Slots : ToRaw(s)
  \/ \E data \in RetBytes \cup CutBytes : FromRaw("b", data)

SpecRaw == InitRaw /\ [][NextRaw]_vars

\* byte k of a number in [0, 2^32), k = 0 the least significant
ByteOf(n, k) ==
  CASE k = 0 -> n[2] % 256
    [] k = 1 -> n[2] \div 256
    [] k = 2 -> n[1] % 256
    [] k = 3 -> n[1] \div 256

\* the 4 bytes of group g (0 the fingerprint, i the path element i) of a buffer
Group(buf, g) == SubSeq(buf, 4 * g + 1, 4 * g + 4)
MostSignificantFirst(n) == <<ByteOf(n, 3), ByteOf(n, 2), ByteOf(n, 1), ByteOf(n, 0)>>
LeastSignificantFirst(n) == <<ByteOf(n, 0), ByteOf(n, 1), ByteOf(n, 2), ByteOf(n, 3)>>

\* an object whose fingerprint and path elements are all in [0, 2^32)
AllU32(v) == InU32(v.fingerPrint) /\ \A i \in 1..Len(v.path) : InU32(v.path[i])

\* C1: for x with a fingerprint in [0, 2^32) and a path of uint32 elements,
\* fromRaw(toRaw(x)) succeeds and has the fingerprint and the path of x.
C1_BinaryRoundTrip ==
  (ret.op = "fromRaw" /\ AllU32(ValueOf("a")) /\ toRaw(heap, objs["a"]) = Ok(ret.arg)) =>
    /\ ~ret.threw
    /\ ValueOf("b").fingerPrint = ValueOf("a").fingerPrint
    /\ Len(ValueOf("b").path) = Len(ValueOf("a").path)
    /\ \A i \in 1..Len(ValueOf("a").path) : ValueOf("b").path[i] = ValueOf("a").path[i]

\* the encoding of 0xDEADBEEF, [0x8000002C, 0x80000000, 5] was decoded into b
C1_Witness ==
  /\ ret.op = "fromRaw"
  /\ ~ret.threw
  /\ ValueOf("a") = [fingerPrint |-> DeadBeef, path |-> Example]
  /\ toRaw(heap, objs["a"]) = Ok(ret.arg)
  /\ ValueOf("b") = ValueOf("a")

\* C2 as stated: toRaw() emits 4 + 4 * len(path) bytes, the fingerprint and
\* then every path element most significant byte first.
C2_AllBigEndian ==
  (ret.op = "toRaw" /\ AllU32(ValueOf(ret.slot))) =>
    /\ ~ret.threw
    /\ Len(ret.val) = 4 + 4 * Len(ValueOf(ret.slot).path)
    /\ Group(ret.val, 0) = MostSignificantFirst(ValueOf(ret.slot).fingerPrint)
    /\ \A i \in 1..Len(ValueOf(ret.slot).path) :
         Group(ret.val, i) = MostSignificantFirst(ValueOf(ret.slot).path[i])

\* C2 amended: toRaw() emits 4 + 4 * len(path) bytes, the fingerprint most
\* significant byte first and every path element least significant byte
\* first; 0xDEADBEEF with [0x8000002C, 0x80000000, 5] encodes to
\* DE AD BE EF 2C 00 00 80 00 00 00 80 05 00 00 00.
C2_WireLayout ==
  (ret.op = "toRaw" /\ AllU32(ValueOf(ret.slot))) =>
    /\ ~ret.threw
    /\ Len(ret.val) = 4 + 4 * Len(ValueOf(ret.slot).path)
    /\ Group(ret.val, 0) = MostSignificantFirst(ValueOf(ret.slot).fingerPrint)
    /\ \A i \in 1..Len(ValueOf(ret.slot).path) :
         Group(ret.val, i) = LeastSignificantFirst(ValueOf(ret.slot).path[i])
    /\ ValueOf(ret.slot) = [fingerPrint |-> DeadBeef, path |-> Example] =>
         ret.val = <<222, 173, 190, 239, 44, 0, 0, 128, 0, 0, 0, 128, 5, 0, 0, 0>>

\* toRaw() has encoded 0xDEADBEEF, [0x8000002C, 0x80000000, 5] in 16 bytes
C2_Witness ==
  /\ ret.op = "toRaw"
  /\ ~ret.threw
  /\ ValueOf(ret.slot) = [fingerPrint |-> DeadBeef, path |-> Example]
  /\ Len(ret.val) = 16

\* a buffer shorter than 4 bytes, or with a cut last group
Malformed(data) == Len(data) < 4 \/ (Len(data) - 4) % 4 # 0

\* C4: fromRaw on a buffer shorter than 4 bytes, or whose length minus 4 is no
\* multiple of 4, throws; what it decodes, it decodes whole (the object
\* encodes to the very buffer: no byte dropped, none padded).
C4_MalformedLengthRejected ==
  ret.op = "fromRaw" =>
    /\ Malformed(ret.arg) => ret.threw
    /\ ~ret.threw => toRaw(heap, objs[ret.slot]) = Ok(ret.arg)

\* fromRaw has thrown on a buffer of 6 bytes, and b is as it was
C4_Witness ==
  /\ ret.op = "fromRaw"
  /\ Len(ret.arg) = 6
  /\ ret.threw
  /\ ValueOf("b") = [fingerPrint |-> MinusOne, path |-> <<>>]

(***************************************************************************)
(* The path string (specification SpecPath): a is built from path strings  *)
(* drawn from bounded sets, and formatted.                                 *)
(***************************************************************************)
\* segments that are valid, each with its canonical spelling
SegTable ==
  { [text |-> <<"5">>, canon |-> <<"5">>],
    [text |-> <<"4", "4", "'">>, canon |-> <<"4", "4", "'">>],
    [text |-> <<"0", "h">>, canon |-> <<"0", "'">>],
    [text |-> <<"0", "0", "7">>, canon |-> <<"7">>],
    [text |-> <<"2", "1", "4", "7", "4", "8", "3", "6", "4", "7", "'">>,
     canon |-> <<"2", "1", "4", "7", "4", "8", "3", "6", "4", "7", "'">>] }

\* segments that are not: 2^31, no numeral, and the empty one
BadSegs == {<<"2", "1", "4", "7", "4", "8", "3", "6", "4", "8">>, <<"x">>, <<>>}

GoodSegs == {e.text : e \in SegTable}
Roots == {<<"m">>, <<"M">>, <<>>}

RECURSIVE JoinSegs(_)
JoinSegs(q) == IF q = <<>> THEN <<>> ELSE <<"/">> \o Head(q) \o JoinSegs(Tail(q))

PathString(root, q) ==
  IF root # <<>> THEN root \o JoinSegs(q)
  ELSE IF q = <<>> THEN <<>>
  ELSE Tail(JoinSegs(q))

ValidPathStrings == {PathString(r, q) : r \in Roots, q \in SeqsUpTo(GoodSegs, MaxSegs)}
PathStrings == {PathString(r, q) : r \in Roots, q \in SeqsUpTo(GoodSegs \cup BadSegs, MaxSegs)}

\* the string is drawn; a and b are new objects
InitPath ==
  \E str \in PathStrings :
    /\ objs = [s \in Slots |-> [fingerPrint |-> MinusOne, path |-> IF s = "a" THEN 1 ELSE 2]]
    /\ heap = [r \in {1, 2} |-> <<>>]
    /\ ret = [op |-> "input", threw |-> FALSE, arg |-> [path |-> StringVal(str)]]

\* a = new KeyOriginInfo({path: str}), then a.format()
NextPath ==
  \/ ret.op = "input" /\ New("a", ret.arg)
  \/ Format("a")

SpecPath == InitPath /\ [][NextPath]_vars

\* the canonical form of a valid path string: 'm', then '/' and the canonical
\* spelling of every segment
RECURSIVE CanonSegs(_)
CanonSegs(q) ==
  IF q = <<>> THEN <<>>
  ELSE <<"/">> \o (CHOOSE e \in SegTable : e.text = Head(q)).canon \o CanonSegs(Tail(q))

Canon(str) ==
  LET parts == Split(str, "/", <<>>)
  IN  IF str = <<>> THEN <<"m">>
      ELSE IF parts[1] \in {<<"m">>, <<"M">>} THEN <<"m">> \o CanonSegs(Tail(parts))
      ELSE <<"m">> \o CanonSegs(parts)

\* C7: building a KeyOriginInfo from a syntactically valid path string
\* succeeds, and formatting it then yields the canonical form of the string
\* character for character.
C7_PathStringRoundTrip ==
  /\ [](ret.op = "new" /\ ret.arg.path.s \in ValidPathStrings => ~ret.threw)
  /\ [][(ret.op = "new" /\ ~ret.threw /\ ret'.op = "format" /\ ret'.slot = ret.slot) =>
          ret'.val.path = Canon(ret.arg.path.s)]_vars

\* format() has printed m/44'/0'/5 for the path [0x8000002C, 0x80000000, 5]
C7_Witness ==
  /\ ret.op = "format"
  /\ ValueOf(ret.slot).path = Example
  /\ ret.val.path = <<"m", "/", "4", "4", "'", "/", "0", "'", "/", "5">>

====
